---- MODULE Spec2Model ----
(***************************************************************************)
(* Model of packages/opencensus-exporter-stackdriver/src/                  *)
(* stackdriver-stats-utils.ts: the translation of OpenCensus metrics into  *)
(* Stackdriver descriptors and time series.                                *)
(*                                                                         *)
(* JavaScript strings that the code builds or edits (timestamps) are       *)
(* sequences of one-character strings; strings the code only passes        *)
(* through (label keys and values, names) are TLA+ strings.                *)
(***************************************************************************)
EXTENDS Integers, Sequences, FiniteSets, TLC

VARIABLES input, output, pc

vars == <<input, output, pc>>

(***************************************************************************)
(* Bounds of the model.                                                    *)
(***************************************************************************)
MaxNanoDigit == 3
MaxBounds == 2
MaxCount == 2
MaxSum == 2
MaxLabelKeys == 2
MaxLabelValues == 3
\* the series of a metric, and its points over all its series
MaxSeries == 2
MaxPoints == 2

(***************************************************************************)
(* Values of the JavaScript runtime.                                       *)
(***************************************************************************)
\* null / undefined: an absent value
Null == "<null>"
\* what `output` holds before the operation has run
NoOutput == [kind |-> "none"]

Min(a, b) == IF a < b THEN a ELSE b
Max(a, b) == IF a > b THEN a ELSE b

\* all sequences over S of length at most n
SeqsUpTo(S, n) == UNION {[1..k -> S] : k \in 0..n}

(***************************************************************************)
(* String primitives of the runtime used by toISOString and leftZeroPad.   *)
(***************************************************************************)
DigitChars == <<"0", "1", "2", "3", "4", "5", "6", "7", "8", "9">>

\* `${n}` for a non-negative integer n
RECURSIVE NumToStr(_)
NumToStr(n) ==
  IF n < 10 THEN <<DigitChars[n + 1]>>
  ELSE NumToStr(n \div 10) \o <<DigitChars[(n % 10) + 1]>>

\* String.prototype.substring(start, end): both indexes are clamped to
\* [0, length] and swapped when start > end
substring(str, start, end) ==
  LET s == Min(Max(start, 0), Len(str))
      e == Min(Max(end, 0), Len(str))
  IN SubSeq(str, Min(s, e) + 1, Max(s, e))

\* str.replace(/0+$/, ''): the longest run of "0" at the end is removed
RECURSIVE StripTrailingZeros(_)
StripTrailingZeros(str) ==
  IF Len(str) > 0 /\ str[Len(str)] = "0"
  THEN StripTrailingZeros(SubSeq(str, 1, Len(str) - 1))
  ELSE str

\* the positions at which pat occurs in str
Occurrences(str, pat) ==
  {i \in 1..(Len(str) - Len(pat) + 1) : SubSeq(str, i, i + Len(pat) - 1) = pat}

\* str.replace(pat, rep) with a string pattern: the first occurrence only,
\* and str unchanged when there is none
ReplaceFirst(str, pat, rep) ==
  IF Occurrences(str, pat) = {} THEN str
  ELSE LET i == CHOOSE k \in Occurrences(str, pat) :
                  \A m \in Occurrences(str, pat) : k <= m
       IN SubSeq(str, 1, i - 1) \o rep \o SubSeq(str, i + Len(pat), Len(str))

\* a number left-padded with "0" to at least w characters
PadNum(n, w) ==
  LET s == NumToStr(n)
  IN [i \in 1..Max(0, w - Len(s)) |-> "0"] \o s

(***************************************************************************)
(* new Date(seconds * 1000).toISOString(): the proleptic Gregorian UTC     *)
(* date and time of the instant, "YYYY-MM-DDTHH:mm:ss.sssZ".  The time     *)
(* value seconds * 1000 is kept as (seconds, millis) so that it stays in   *)
(* the range of 32-bit integers; millis is the time value modulo 1000,     *)
(* which is 0 for whole seconds.                                           *)
(***************************************************************************)
SecondsPerDay == 86400

CivilFromDays(days) ==
  LET z == days + 719468
      era == z \div 146097
      doe == z - era * 146097
      yoe == (doe - doe \div 1460 + doe \div 36524 - doe \div 146096) \div 365
      doy == doe - (365 * yoe + yoe \div 4 - yoe \div 100)
      mp == (5 * doy + 2) \div 153
      d == doy - (153 * mp + 2) \div 5 + 1
      m == IF mp < 10 THEN mp + 3 ELSE mp - 9
      y == yoe + era * 400 + (IF m <= 2 THEN 1 ELSE 0)
  IN [year |-> y, month |-> m, day |-> d]

DateToISOString(seconds, millis) ==
  LET date == CivilFromDays(seconds \div SecondsPerDay)
      tod == seconds % SecondsPerDay
  IN PadNum(date.year, 4) \o <<"-">> \o PadNum(date.month, 2) \o <<"-">>
     \o PadNum(date.day, 2) \o <<"T">> \o PadNum(tod \div 3600, 2) \o <<":">>
     \o PadNum((tod % 3600) \div 60, 2) \o <<":">> \o PadNum(tod % 60, 2)
     \o <<".">> \o PadNum(millis, 3) \o <<"Z">>

(***************************************************************************)
(* leftZeroPad and toISOString                                             *)
(***************************************************************************)
Zeros9 == <<"0", "0", "0", "0", "0", "0", "0", "0", "0">>

leftZeroPad(ns) ==
  LET str == NumToStr(ns)
      pad == substring(Zeros9, 0, 9 - Len(str))
  IN pad \o str

toISOString(timestamp) ==
  LET str == DateToISOString(timestamp.seconds, 0)
      nsStr == StripTrailingZeros(leftZeroPad(timestamp.nanos))
  IN ReplaceFirst(str, <<"0", "0", "0", "Z">>, nsStr \o <<"Z">>)

(***************************************************************************)
(* Timestamps the formatter is applied to.                                 *)
(***************************************************************************)
RECURSIVE Pow10(_)
Pow10(e) == IF e = 0 THEN 1 ELSE 10 * Pow10(e - 1)

MaxNanos == 999999999

\* 1970-01-01T00:00:00, T00:00:01, T00:00:59, T01:00:00, T23:59:59,
\* 1970-01-02, 2000-02-29T12:34:56, 2019-01-01T00:00:00
SampleSeconds == {0, 1, 59, 3600, 86399, 86400, 951827696, 1546300800}

SampleNanos ==
  {n \in {d * Pow10(e) : d \in 0..MaxNanoDigit, e \in 0..8} : n <= MaxNanos}
  \cup {MaxNanos, 123456789, 120000000, 100000001}

Timestamps == [seconds : SampleSeconds, nanos : SampleNanos]

InitISO ==
  /\ input \in Timestamps
  /\ output = NoOutput
  /\ pc = "ready"

CallToISOString ==
  /\ pc = "ready"
  /\ output' = [kind |-> "string", value |-> toISOString(input)]
  /\ pc' = "done"
  /\ UNCHANGED input

NextISO == CallToISOString

SpecISO == InitISO /\ [][NextISO]_vars

(***************************************************************************)
(* C3: for whole seconds s >= 0 and nanos n in [0, 999999999] toISOString  *)
(* returns the UTC instant of s at second precision, then, when n # 0, "." *)
(* and the nine-digit form of n without its trailing zeros, then "Z"; when *)
(* n = 0 the result has no "." at all.                                     *)
(***************************************************************************)
NineDigits(n) == [i \in 1..9 |-> DigitChars[((n \div Pow10(9 - i)) % 10) + 1]]

SecondPrecision(seconds) == SubSeq(DateToISOString(seconds, 0), 1, 19)

ClaimedISOString(timestamp) ==
  SecondPrecision(timestamp.seconds)
  \o (IF timestamp.nanos # 0
      THEN <<".">> \o StripTrailingZeros(NineDigits(timestamp.nanos))
      ELSE <<>>)
  \o <<"Z">>

Epoch == <<"1", "9", "7", "0", "-", "0", "1", "-", "0", "1", "T",
           "0", "0", ":", "0", "0", ":", "0", "0">>

C3_ISOStringFormat ==
  pc = "done" =>
    /\ output.value = ClaimedISOString(input)
    /\ input.nanos = 0 => \A i \in 1..Len(output.value) : output.value[i] # "."
    /\ input = [seconds |-> 0, nanos |-> 0] => output.value = Epoch \o <<"Z">>
    /\ input = [seconds |-> 0, nanos |-> 500000000] =>
         output.value = Epoch \o <<".", "5", "Z">>

(***************************************************************************)
(* Numbers that createDistribution divides.  A number is a fraction        *)
(* num/den in lowest terms with den > 0; den = 0 stands for the results of *)
(* a division by zero: NaN (0/0) and +-Infinity (x/0).                     *)
(***************************************************************************)
Abs(a) == IF a < 0 THEN 0 - a ELSE a
Sign(a) == IF a < 0 THEN 0 - 1 ELSE IF a > 0 THEN 1 ELSE 0

RECURSIVE Gcd(_, _)
Gcd(a, b) == IF b = 0 THEN a ELSE Gcd(b, a % b)

Num(a) == [num |-> a, den |-> 1]

\* a / b in JavaScript
Divide(a, b) ==
  IF b = 0 THEN [num |-> Sign(a), den |-> 0]
  ELSE LET g == Gcd(Abs(a), Abs(b))
       IN [num |-> Sign(b) * (a \div g), den |-> Abs(b) \div g]

(***************************************************************************)
(* createDistribution, createExplicitBucketOptions, createBucketCounts     *)
(***************************************************************************)
createExplicitBucketOptions(bucketOptions) ==
  LET explicitBucketOptions == <<0>>
  IN explicitBucketOptions \o bucketOptions.explicit.bounds

createBucketCounts_NoUnderflow(buckets) ==
  [i \in 1..Len(buckets) |-> buckets[i].count]

createBucketCounts(buckets) ==
  LET bucketCounts == <<0>>
  IN bucketCounts \o [i \in 1..Len(buckets) |-> buckets[i].count]

createDistribution_NoZeroCheck(distribution) ==
  [count |-> distribution.count,
   mean |-> Divide(distribution.sum, distribution.count),
   sumOfSquaredDeviation |-> distribution.sumOfSquaredDeviation,
   bucketOptions |-> [explicitBuckets |->
     [bounds |-> createExplicitBucketOptions(distribution.bucketOptions)]],
   bucketCounts |-> createBucketCounts(distribution.buckets)]

createDistribution(distribution) ==
  [count |-> distribution.count,
   mean |-> IF distribution.count = 0 THEN Num(0)
            ELSE Divide(distribution.sum, distribution.count),
   sumOfSquaredDeviation |-> distribution.sumOfSquaredDeviation,
   bucketOptions |-> [explicitBuckets |->
     [bounds |-> createExplicitBucketOptions(distribution.bucketOptions)]],
   bucketCounts |-> createBucketCounts(distribution.buckets)]

(***************************************************************************)
(* Distributions createDistribution is applied to: explicit bounds are     *)
(* positive and strictly ascending, as the core library keeps them.        *)
(***************************************************************************)
BoundValues == 1..(MaxBounds + 1)

AscendingBounds ==
  {b \in SeqsUpTo(BoundValues, MaxBounds) :
     \A i \in 1..(Len(b) - 1) : b[i] < b[i + 1]}

Buckets == SeqsUpTo([count : 0..MaxCount], MaxBounds + 1)

DistributionValues ==
  [count : 0..MaxCount,
   sum : (0 - MaxSum)..MaxSum,
   sumOfSquaredDeviation : {0, 4},
   bucketOptions : [explicit : [bounds : AscendingBounds]],
   buckets : Buckets]

InitDist ==
  /\ input \in DistributionValues
  /\ output = NoOutput
  /\ pc = "ready"

CallCreateDistribution ==
  /\ pc = "ready"
  /\ output' = [kind |-> "distribution", value |-> createDistribution(input)]
  /\ pc' = "done"
  /\ UNCHANGED input

NextDist == CallCreateDistribution

SpecDist == InitDist /\ [][NextDist]_vars

(***************************************************************************)
(* C1: for a source distribution with N explicit bounds and N+1 buckets,   *)
(* createDistribution returns N+1 bounds, the first 0 and element i+1 the  *)
(* source bound i, and N+2 bucket counts, the first 0 and element i+1 the  *)
(* count of source bucket i.                                               *)
(***************************************************************************)
SourceBounds == input.bucketOptions.explicit.bounds

C1_DistributionRebased ==
  (pc = "done" /\ Len(input.buckets) = Len(SourceBounds) + 1) =>
    LET bounds == output.value.bucketOptions.explicitBuckets.bounds
        counts == output.value.bucketCounts
        N == Len(SourceBounds)
    IN /\ Len(bounds) = N + 1
       /\ bounds[1] = 0
       /\ \A i \in 1..N : bounds[i + 1] = SourceBounds[i]
       /\ Len(counts) = N + 2
       /\ counts[1] = 0
       /\ \A i \in 1..(N + 1) : counts[i + 1] = input.buckets[i].count

\* a distribution with two bounds, three buckets not all empty, translated
C1_Witness ==
  /\ pc = "done"
  /\ Len(SourceBounds) = 2
  /\ Len(input.buckets) = 3
  /\ input.buckets[1].count # input.buckets[3].count
  /\ output.value.bucketCounts[4] = input.buckets[3].count

(***************************************************************************)
(* C9 as stated: mean = 0 exactly when count = 0 (so mean # 0 whenever     *)
(* count # 0), mean = sum/count whenever count > 0, and no division by     *)
(* zero occurs.                                                            *)
(***************************************************************************)
MeanIsQuotient ==
  /\ output.value.mean.den # 0
  /\ output.value.mean.num * input.count = input.sum * output.value.mean.den

C9_MeanZeroIffCountZero ==
  pc = "done" =>
    /\ output.value.mean = Num(0) <=> input.count = 0
    /\ input.count > 0 => MeanIsQuotient
    /\ output.value.mean.den # 0

(***************************************************************************)
(* C9 as amended: mean = 0 whenever count = 0, mean = sum/count whenever   *)
(* count > 0, so that mean = 0 exactly when count = 0 or sum = 0; no       *)
(* division by zero occurs.                                                *)
(***************************************************************************)
C9_MeanAmended ==
  pc = "done" =>
    /\ input.count = 0 => output.value.mean = Num(0)
    /\ input.count > 0 => MeanIsQuotient
    /\ output.value.mean = Num(0) <=> (input.count = 0 \/ input.sum = 0)
    /\ output.value.mean.den # 0

\* count = 0 with a nonzero sum: the case in which sum/count would divide by 0
C9_Witness ==
  /\ pc = "done"
  /\ input.count = 0
  /\ input.sum # 0
  /\ output.value.mean = Num(0)

(***************************************************************************)
(* path.join(a, b) on metric names and prefixes.  A path is a sequence of  *)
(* tokens, each the separator "/" or a segment; the non-empty arguments    *)
(* are joined by a separator and the result is normalised: runs of         *)
(* separators collapse to one, and the empty path becomes ".".  The names  *)
(* and prefixes of the model hold no "." or ".." segment.                  *)
(***************************************************************************)
RECURSIVE CollapseSeparators(_)
CollapseSeparators(p) ==
  IF Len(p) < 2 THEN p
  ELSE IF p[1] = "/" /\ p[2] = "/" THEN CollapseSeparators(Tail(p))
  ELSE <<p[1]>> \o CollapseSeparators(Tail(p))

PathJoin(a, b) ==
  LET joined == IF a = <<>> THEN b
                ELSE IF b = <<>> THEN a
                ELSE a \o <<"/">> \o b
  IN IF joined = <<>> THEN <<".">> ELSE CollapseSeparators(joined)

getMetricType(name, metricPrefix) == PathJoin(metricPrefix, name)

createDisplayName(name, displayNamePrefix) == PathJoin(displayNamePrefix, name)

(***************************************************************************)
(* The process identity label.                                             *)
(***************************************************************************)
OPENCENSUS_TASK == "opencensus_task"
OPENCENSUS_TASK_DESCRIPTION == "Opencensus task identifier"

\* 'nodejs-' + pid + '@' + hostname, for process 4242 on host "localhost"
generateDefaultTaskValue == "nodejs-4242@localhost"

OPENCENSUS_TASK_VALUE_DEFAULT == generateDefaultTaskValue

(***************************************************************************)
(* createMetric.  A label map is a function from its keys to their values. *)
(***************************************************************************)
EmptyObject == <<>>

\* obj[key] = value
SetProperty(obj, key, value) ==
  [k \in DOMAIN obj \cup {key} |-> IF k = key THEN value ELSE obj[k]]

\* the truthiness of a label value: null, undefined and '' are falsy
Truthy(value) == value # Null /\ value # ""

\* the loop of createMetric from index i (1-based) on; labelKeys[i] is
\* undefined, and so falsy, beyond the end of labelKeys
RECURSIVE LabelsFrom(_, _, _, _)
LabelsFrom(labelKeys, labelValues, i, labels) ==
  IF i > Len(labelValues) THEN labels
  ELSE LET value == labelValues[i].value
       IN LabelsFrom(labelKeys, labelValues, i + 1,
            IF Truthy(value) /\ i <= Len(labelKeys)
            THEN SetProperty(labels, labelKeys[i].key, value)
            ELSE labels)

\* mutant: the identity label does not replace a caller's label of that key
createMetric_KeepCallerTask(metricDescriptor, labelValues, metricPrefix) ==
  LET labels == LabelsFrom(metricDescriptor.labelKeys, labelValues, 1, EmptyObject)
  IN [type |-> getMetricType(metricDescriptor.name, metricPrefix),
      labels |-> IF OPENCENSUS_TASK \in DOMAIN labels THEN labels
                 ELSE SetProperty(labels, OPENCENSUS_TASK,
                                  OPENCENSUS_TASK_VALUE_DEFAULT)]

\* mutant: the values are paired with the keys of a sequence whose absent
\* values were dropped first, so that later values shift to earlier keys
DropAbsent(labelValues) == SelectSeq(labelValues, LAMBDA lv : Truthy(lv.value))

createMetric_Shifted(metricDescriptor, labelValues, metricPrefix) ==
  [type |-> getMetricType(metricDescriptor.name, metricPrefix),
   labels |-> SetProperty(
     LabelsFrom(metricDescriptor.labelKeys, DropAbsent(labelValues), 1,
                EmptyObject),
     OPENCENSUS_TASK, OPENCENSUS_TASK_VALUE_DEFAULT)]

createMetric(metricDescriptor, labelValues, metricPrefix) ==
  [type |-> getMetricType(metricDescriptor.name, metricPrefix),
   labels |-> SetProperty(
     LabelsFrom(metricDescriptor.labelKeys, labelValues, 1, EmptyObject),
     OPENCENSUS_TASK, OPENCENSUS_TASK_VALUE_DEFAULT)]

(***************************************************************************)
(* Descriptors and label values createMetric is applied to.                *)
(***************************************************************************)
MetricName == <<"request", "/", "latency">>
MetricPrefix == <<"custom.googleapis.com", "/", "opencensus">>

LabelKeyNames == {"method", "status", OPENCENSUS_TASK}
LabelKeys == [key : LabelKeyNames, description : {"a label"}]
LabelValueStrings == {Null, "", "GET", "200"}
LabelValues == [value : LabelValueStrings]

InitLabels ==
  /\ input \in [descriptor : [name : {MetricName},
                              labelKeys : SeqsUpTo(LabelKeys, MaxLabelKeys)],
                labelValues : SeqsUpTo(LabelValues, MaxLabelValues),
                metricPrefix : {MetricPrefix, <<>>}]
  /\ output = NoOutput
  /\ pc = "ready"

CallCreateMetric ==
  /\ pc = "ready"
  /\ output' = [kind |-> "metric",
                value |-> createMetric(input.descriptor, input.labelValues,
                                       input.metricPrefix)]
  /\ pc' = "done"
  /\ UNCHANGED input

NextLabels == CallCreateMetric

SpecLabels == InitLabels /\ [][NextLabels]_vars

(***************************************************************************)
(* C4: for every descriptor and label values, also when the descriptor     *)
(* defines a label key "opencensus_task", the label map of createMetric    *)
(* maps "opencensus_task" to OPENCENSUS_TASK_VALUE_DEFAULT; a caller's     *)
(* value under that key is overwritten.                                    *)
(***************************************************************************)
C4_IdentityLabelAlways ==
  pc = "done" =>
    /\ OPENCENSUS_TASK \in DOMAIN output.value.labels
    /\ output.value.labels[OPENCENSUS_TASK] = OPENCENSUS_TASK_VALUE_DEFAULT

\* the descriptor's first key is "opencensus_task" and the caller gives it
\* the value "GET"
C4_Witness ==
  /\ pc = "done"
  /\ Len(input.descriptor.labelKeys) >= 1
  /\ Len(input.labelValues) >= 1
  /\ input.descriptor.labelKeys[1].key = OPENCENSUS_TASK
  /\ input.labelValues[1].value = "GET"
  /\ output.value.labels[OPENCENSUS_TASK] = OPENCENSUS_TASK_VALUE_DEFAULT

(***************************************************************************)
(* C7 as stated: with pairwise distinct label keys, none the identity key, *)
(* the map of createMetric holds keys[i].key -> values[i] for every index  *)
(* i within both sequences whose label value is present (not null), and    *)
(* no other entry besides the identity label.                              *)
(***************************************************************************)
DistinctCallerKeys ==
  LET keys == input.descriptor.labelKeys
  IN /\ \A i, j \in 1..Len(keys) : keys[i].key = keys[j].key => i = j
     /\ \A i \in 1..Len(keys) : keys[i].key # OPENCENSUS_TASK

AlignedIndexes ==
  1..Min(Len(input.descriptor.labelKeys), Len(input.labelValues))

LabelsAre(indexes) ==
  LET keys == input.descriptor.labelKeys
      labels == output.value.labels
  IN /\ DOMAIN labels = {keys[i].key : i \in indexes} \cup {OPENCENSUS_TASK}
     /\ \A i \in indexes : labels[keys[i].key] = input.labelValues[i].value

C7_LabelsAlignedPresent ==
  (pc = "done" /\ DistinctCallerKeys) =>
    LabelsAre({i \in AlignedIndexes : input.labelValues[i].value # Null})

(***************************************************************************)
(* C7 as amended: the same, for every index i within both sequences whose  *)
(* label value is present and not the empty string; a label value that is  *)
(* null or '' adds no entry.                                               *)
(***************************************************************************)
C7_LabelsAlignedNonEmpty ==
  (pc = "done" /\ DistinctCallerKeys) =>
    LabelsAre({i \in AlignedIndexes : Truthy(input.labelValues[i].value)})

\* two keys, three values of which the first is absent: the second value
\* goes under the second key and the third value nowhere
C7_Witness ==
  /\ pc = "done"
  /\ DistinctCallerKeys
  /\ Len(input.descriptor.labelKeys) = 2
  /\ Len(input.labelValues) = 3
  /\ input.labelValues[1].value = Null
  /\ input.labelValues[2].value = "200"
  /\ input.labelValues[3].value = "GET"
  /\ output.value.labels[input.descriptor.labelKeys[2].key] = "200"

(***************************************************************************)
(* MetricDescriptorType of @opencensus/core, and MetricKind and ValueType  *)
(* of the exporter's types.                                                *)
(***************************************************************************)
MetricDescriptorTypes ==
  {"UNSPECIFIED", "GAUGE_INT64", "GAUGE_DOUBLE", "GAUGE_DISTRIBUTION",
   "CUMULATIVE_INT64", "CUMULATIVE_DOUBLE", "CUMULATIVE_DISTRIBUTION",
   "SUMMARY"}

ValueTypes ==
  {"VALUE_TYPE_UNSPECIFIED", "BOOL", "INT64", "DOUBLE", "STRING",
   "DISTRIBUTION", "MONEY"}

\* mutant: a gauge distribution is reported as a gauge
createMetricKind_GaugeDistribution(metricDescriptorType) ==
  IF metricDescriptorType \in {"GAUGE_INT64", "GAUGE_DOUBLE", "GAUGE_DISTRIBUTION"}
  THEN "GAUGE"
  ELSE IF metricDescriptorType \in
            {"CUMULATIVE_INT64", "CUMULATIVE_DOUBLE", "CUMULATIVE_DISTRIBUTION"}
  THEN "CUMULATIVE"
  ELSE "METRIC_KIND_UNSPECIFIED"

createMetricKind(metricDescriptorType) ==
  IF \/ metricDescriptorType = "GAUGE_INT64"
     \/ metricDescriptorType = "GAUGE_DOUBLE"
  THEN "GAUGE"
  ELSE IF \/ metricDescriptorType = "CUMULATIVE_INT64"
          \/ metricDescriptorType = "CUMULATIVE_DOUBLE"
          \/ metricDescriptorType = "CUMULATIVE_DISTRIBUTION"
  THEN "CUMULATIVE"
  ELSE "METRIC_KIND_UNSPECIFIED"

createValueType(metricDescriptorType) ==
  IF \/ metricDescriptorType = "CUMULATIVE_DOUBLE"
     \/ metricDescriptorType = "GAUGE_DOUBLE"
  THEN "DOUBLE"
  ELSE IF \/ metricDescriptorType = "GAUGE_INT64"
          \/ metricDescriptorType = "CUMULATIVE_INT64"
  THEN "INT64"
  ELSE IF \/ metricDescriptorType = "GAUGE_DISTRIBUTION"
          \/ metricDescriptorType = "CUMULATIVE_DISTRIBUTION"
  THEN "DISTRIBUTION"
  ELSE "VALUE_TYPE_UNSPECIFIED"

(***************************************************************************)
(* createLabelDescriptor and createMetricDescriptorData                    *)
(***************************************************************************)
createLabelDescriptor(labelKeys) ==
  LET labelDescriptorList ==
        [i \in 1..Len(labelKeys) |->
           [key |-> labelKeys[i].key,
            valueType |-> "STRING",
            description |-> labelKeys[i].description]]
  IN Append(labelDescriptorList,
            [key |-> OPENCENSUS_TASK,
             valueType |-> "STRING",
             description |-> OPENCENSUS_TASK_DESCRIPTION])

createMetricDescriptorData(metricDescriptor, metricPrefix, displayNamePrefix) ==
  [type |-> getMetricType(metricDescriptor.name, metricPrefix),
   description |-> metricDescriptor.description,
   displayName |-> createDisplayName(metricDescriptor.name, displayNamePrefix),
   metricKind |-> createMetricKind(metricDescriptor.type),
   valueType |-> createValueType(metricDescriptor.type),
   unit |-> metricDescriptor.unit,
   labels |-> createLabelDescriptor(metricDescriptor.labelKeys)]

(***************************************************************************)
(* createValue and createPoint.  A call that throws yields the record      *)
(* Throw(message) in place of a result, and a caller hands it on.          *)
(***************************************************************************)
Throw(message) == [thrown |-> message]
IsThrown(result) == DOMAIN result = {"thrown"}

\* an undefined startTimestamp
Undefined == [undefined |-> TRUE]

\* mutant: an unsupported value type is encoded like an integer
createValue_NoThrow(valueType, point) ==
  IF valueType = "DOUBLE" THEN [doubleValue |-> point.value]
  ELSE IF valueType = "DISTRIBUTION"
  THEN [distributionValue |-> createDistribution(point.value)]
  ELSE [int64Value |-> point.value]

createValue(valueType, point) ==
  IF valueType = "INT64" THEN [int64Value |-> point.value]
  ELSE IF valueType = "DOUBLE" THEN [doubleValue |-> point.value]
  ELSE IF valueType = "DISTRIBUTION"
  THEN [distributionValue |-> createDistribution(point.value)]
  ELSE Throw(<<"unsupported value type: ", valueType>>)

\* mutant: the start time is attached to the points of cumulative metrics
\* only when the value is a distribution
createPoint_StartForDistribution(point, startTimeStamp, valueType) ==
  LET value == createValue(valueType, point)
      endTime == toISOString(point.timestamp)
  IN IF IsThrown(value) THEN value
     ELSE IF startTimeStamp # Undefined /\ valueType = "DISTRIBUTION"
     THEN [interval |-> [startTime |-> toISOString(startTimeStamp),
                         endTime |-> endTime],
           value |-> value]
     ELSE [interval |-> [endTime |-> endTime], value |-> value]

\* mutant: the interval starts at the point's own timestamp
createPoint_StartIsEnd(point, startTimeStamp, valueType) ==
  LET value == createValue(valueType, point)
      endTime == toISOString(point.timestamp)
  IN IF IsThrown(value) THEN value
     ELSE IF startTimeStamp # Undefined
     THEN [interval |-> [startTime |-> endTime, endTime |-> endTime],
           value |-> value]
     ELSE [interval |-> [endTime |-> endTime], value |-> value]

createPoint(point, startTimeStamp, valueType) ==
  LET value == createValue(valueType, point)
      endTime == toISOString(point.timestamp)
  IN IF IsThrown(value) THEN value
     ELSE IF startTimeStamp # Undefined
     THEN [interval |-> [startTime |-> toISOString(startTimeStamp),
                         endTime |-> endTime],
           value |-> value]
     ELSE [interval |-> [endTime |-> endTime], value |-> value]

(***************************************************************************)
(* createTimeSeriesList.  The series are translated in order and, within a *)
(* series, the points in order; the first createPoint that throws ends the *)
(* call with its error and nothing is returned.                            *)
(***************************************************************************)
\* timeSeries.points.map(point => createPoint(...))
MapPoints(timeSeries, valueType) ==
  [p \in 1..Len(timeSeries.points) |->
     createPoint(timeSeries.points[p], timeSeries.startTimestamp, valueType)]

TranslateSeries(metricDescriptor, timeSeries, monitoredResource, metricPrefix) ==
  [metric |-> createMetric(metricDescriptor, timeSeries.labelValues, metricPrefix),
   resource |-> monitoredResource,
   metricKind |-> createMetricKind(metricDescriptor.type),
   valueType |-> createValueType(metricDescriptor.type),
   points |-> MapPoints(timeSeries, createValueType(metricDescriptor.type))]

\* the (series, point) positions whose translation throws
ThrowingPositions(timeSeriesList) ==
  {jp \in UNION {{<<j, p>> : p \in 1..Len(timeSeriesList[j].points)} :
                   j \in 1..Len(timeSeriesList)} :
     IsThrown(timeSeriesList[jp[1]].points[jp[2]])}

Before(a, b) == a[1] < b[1] \/ (a[1] = b[1] /\ a[2] <= b[2])

Outcome(timeSeriesList) ==
  LET throwing == ThrowingPositions(timeSeriesList)
  IN IF throwing = {} THEN [kind |-> "return", value |-> timeSeriesList]
     ELSE LET first == CHOOSE a \in throwing : \A b \in throwing : Before(a, b)
          IN [kind |-> "throw",
              error |-> timeSeriesList[first[1]].points[first[2]].thrown]

\* mutant: every series is given the points of the first series
createTimeSeriesList_FirstPoints(metric, monitoredResource, metricPrefix) ==
  Outcome([j \in 1..Len(metric.timeseries) |->
    [TranslateSeries(metric.descriptor, metric.timeseries[j],
                     monitoredResource, metricPrefix)
     EXCEPT !.points = MapPoints(metric.timeseries[1],
                                 createValueType(metric.descriptor.type))]])

createTimeSeriesList(metric, monitoredResource, metricPrefix) ==
  Outcome([j \in 1..Len(metric.timeseries) |->
    TranslateSeries(metric.descriptor, metric.timeseries[j],
                    monitoredResource, metricPrefix)])

(***************************************************************************)
(* Metrics the two entry points are applied to.  The value of a point is a *)
(* distribution when the descriptor's type is a distribution type and a    *)
(* number otherwise; a series has a start timestamp or none, whatever the  *)
(* descriptor's type.                                                      *)
(***************************************************************************)
DisplayNamePrefix == <<"OpenCensus">>
MonitoredResource == [type |-> "global", labels |-> [project_id |-> "p1"]]

MetricLabelKeys ==
  <<[key |-> "method", description |-> "a label"],
    [key |-> "status", description |-> "a label"]>>

SeriesLabelValues == {<<[value |-> "GET"], [value |-> "200"]>>,
                      <<[value |-> Null], [value |-> "404"]>>}

\* 2019-01-01T00:00:00Z, the start of a series
StartTimestamp == [seconds |-> 1546300800, nanos |-> 0]
\* 2019-01-01T00:01:00.5Z and 2019-01-01T00:02:00.000000001Z
PointTimestamp1 == [seconds |-> 1546300860, nanos |-> 500000000]
PointTimestamp2 == [seconds |-> 1546300920, nanos |-> 1]

Distribution1 ==
  [count |-> 3, sum |-> 6, sumOfSquaredDeviation |-> 2,
   bucketOptions |-> [explicit |-> [bounds |-> <<1, 4>>]],
   buckets |-> <<[count |-> 1], [count |-> 2], [count |-> 0]>>]

Distribution2 ==
  [count |-> 0, sum |-> 0, sumOfSquaredDeviation |-> 0,
   bucketOptions |-> [explicit |-> [bounds |-> <<1, 4>>]],
   buckets |-> <<[count |-> 0], [count |-> 0], [count |-> 0]>>]

IsDistributionType(type) ==
  type \in {"GAUGE_DISTRIBUTION", "CUMULATIVE_DISTRIBUTION"}

PointsOfType(type) ==
  IF IsDistributionType(type)
  THEN {[value |-> Distribution1, timestamp |-> PointTimestamp1],
        [value |-> Distribution2, timestamp |-> PointTimestamp2]}
  ELSE {[value |-> 7, timestamp |-> PointTimestamp1],
        [value |-> 0, timestamp |-> PointTimestamp2]}

\* the series of a metric of the type
SeriesOfType(type) ==
  [labelValues : SeriesLabelValues,
   startTimestamp : {Undefined, StartTimestamp},
   points : SeqsUpTo(PointsOfType(type), MaxPoints)]

\* the number of points of the first k series
RECURSIVE PointCount(_, _)
PointCount(timeseries, k) ==
  IF k = 0 THEN 0
  ELSE Len(timeseries[k].points) + PointCount(timeseries, k - 1)

MetricOfType(type, timeseries) ==
  [descriptor |-> [name |-> MetricName,
                   description |-> "Latency of requests",
                   unit |-> "ms",
                   type |-> type,
                   labelKeys |-> MetricLabelKeys],
   timeseries |-> timeseries]

Init ==
  /\ \E type \in MetricDescriptorTypes, k \in 0..MaxSeries :
       \E timeseries \in [1..k -> SeriesOfType(type)] :
         /\ PointCount(timeseries, k) <= MaxPoints
         /\ input = [metric |-> MetricOfType(type, timeseries),
                     monitoredResource |-> MonitoredResource,
                     metricPrefix |-> MetricPrefix,
                     displayNamePrefix |-> DisplayNamePrefix]
  /\ output = NoOutput
  /\ pc = "ready"

CallCreateMetricDescriptorData ==
  /\ pc = "ready"
  /\ output' = [kind |-> "descriptor",
                value |-> createMetricDescriptorData(input.metric.descriptor,
                            input.metricPrefix, input.displayNamePrefix)]
  /\ pc' = "done"
  /\ UNCHANGED input

CallCreateTimeSeriesList ==
  /\ pc = "ready"
  /\ output' = createTimeSeriesList(input.metric, input.monitoredResource,
                                    input.metricPrefix)
  /\ pc' = "done"
  /\ UNCHANGED input

Next == CallCreateMetricDescriptorData \/ CallCreateTimeSeriesList

Spec == Init /\ [][Next]_vars

(***************************************************************************)
(* What the claims about the two entry points speak of.                    *)
(***************************************************************************)
Descriptor == input.metric.descriptor
InputSeries == input.metric.timeseries
ResolvedValueType == createValueType(Descriptor.type)
SupportedValueTypes == {"INT64", "DOUBLE", "DISTRIBUTION"}

\* createTimeSeriesList has run and returned a list / thrown
Returned == pc = "done" /\ output.kind = "return"
Threw == pc = "done" /\ output.kind = "throw"

HasStartTime(point) == "startTime" \in DOMAIN point.interval
HasEndTime(point) == "endTime" \in DOMAIN point.interval

\* the positions j of the returned series and p of the points of series j
SeriesIndexes == 1..Len(output.value)
PointIndexes(j) == 1..Len(output.value[j].points)

SomePoint == \E j \in 1..Len(InputSeries) : Len(InputSeries[j].points) > 0

(***************************************************************************)
(* C2 as stated: in every list createTimeSeriesList returns, a point's     *)
(* interval carries a startTime if and only if the metric's resolved       *)
(* metricKind is CUMULATIVE; no point of a gauge metric carries one.       *)
(***************************************************************************)
C2_StartTimeIffCumulative ==
  Returned =>
    \A j \in SeriesIndexes : \A p \in PointIndexes(j) :
      HasStartTime(output.value[j].points[p])
        <=> output.value[j].metricKind = "CUMULATIVE"

(***************************************************************************)
(* C2 as amended: in every list createTimeSeriesList returns, a point's    *)
(* interval carries a startTime if and only if the point's series has a    *)
(* start timestamp, whatever the metric's resolved metricKind: the points  *)
(* of a gauge series with a start timestamp carry a startTime and those of *)
(* a cumulative series without one carry none.                             *)
(***************************************************************************)
C2_StartTimeIffSeriesStart ==
  Returned =>
    \A kind \in {"GAUGE", "CUMULATIVE", "METRIC_KIND_UNSPECIFIED"} :
      \A j \in SeriesIndexes : \A p \in PointIndexes(j) :
        output.value[j].metricKind = kind =>
          (HasStartTime(output.value[j].points[p])
             <=> InputSeries[j].startTimestamp # Undefined)

\* a gauge series with a start timestamp whose point carries a startTime
C2_Witness ==
  /\ Returned
  /\ Len(output.value) >= 1
  /\ output.value[1].metricKind = "GAUGE"
  /\ InputSeries[1].startTimestamp = StartTimestamp
  /\ Len(output.value[1].points) >= 1
  /\ HasStartTime(output.value[1].points[1])

(***************************************************************************)
(* C5: createMetricKind and createValueType implement the mapping table,   *)
(* and createMetricDescriptorData and createTimeSeriesList both report the *)
(* table's pair for the descriptor.                                        *)
(***************************************************************************)
MappingTable(type) ==
  CASE type = "GAUGE_INT64" -> <<"GAUGE", "INT64">>
    [] type = "GAUGE_DOUBLE" -> <<"GAUGE", "DOUBLE">>
    [] type = "GAUGE_DISTRIBUTION" -> <<"METRIC_KIND_UNSPECIFIED", "DISTRIBUTION">>
    [] type = "CUMULATIVE_INT64" -> <<"CUMULATIVE", "INT64">>
    [] type = "CUMULATIVE_DOUBLE" -> <<"CUMULATIVE", "DOUBLE">>
    [] type = "CUMULATIVE_DISTRIBUTION" -> <<"CUMULATIVE", "DISTRIBUTION">>
    [] OTHER -> <<"METRIC_KIND_UNSPECIFIED", "VALUE_TYPE_UNSPECIFIED">>

C5_KindTypeTable ==
  /\ (pc = "done" /\ output.kind = "descriptor") =>
       <<output.value.metricKind, output.value.valueType>>
         = MappingTable(Descriptor.type)
  /\ Returned =>
       \A j \in SeriesIndexes :
         <<output.value[j].metricKind, output.value[j].valueType>>
           = MappingTable(Descriptor.type)

\* a gauge distribution, translated by both entry points
C5_Witness ==
  /\ pc = "done"
  /\ Descriptor.type = "GAUGE_DISTRIBUTION"
  /\ \/ output.kind = "descriptor" /\ output.value.valueType = "DISTRIBUTION"
     \/ /\ output.kind = "return"
        /\ Len(output.value) = MaxSeries
        /\ output.value[1].metricKind = "METRIC_KIND_UNSPECIFIED"

(***************************************************************************)
(* C6 as stated: createValue raises an error for every value type other    *)
(* than INT64, DOUBLE and DISTRIBUTION, and createTimeSeriesList applied   *)
(* to a metric whose resolved value type is none of the three aborts with  *)
(* that error and returns no list.                                         *)
(***************************************************************************)
CreateValueRaises ==
  \A valueType \in ValueTypes \ SupportedValueTypes :
    \A point \in PointsOfType("UNSPECIFIED") :
      createValue(valueType, point)
        = Throw(<<"unsupported value type: ", valueType>>)

UnsupportedError == Throw(<<"unsupported value type: ", ResolvedValueType>>).thrown

C6_UnsupportedAlwaysAborts ==
  /\ CreateValueRaises
  /\ (pc = "done" /\ output.kind # "descriptor"
        /\ ResolvedValueType \notin SupportedValueTypes) =>
       (output.kind = "throw" /\ output.error = UnsupportedError)

(***************************************************************************)
(* C6 as amended: createValue raises an error for every value type other   *)
(* than INT64, DOUBLE and DISTRIBUTION, and createTimeSeriesList applied   *)
(* to a metric whose resolved value type is none of the three aborts with  *)
(* that error and returns no list whenever some series of the metric has a *)
(* point; when no series has a point no value is encoded and it returns    *)
(* one series without points per input series, each tagged with the        *)
(* unspecified value type.  A metric of a supported value type never       *)
(* aborts.                                                                 *)
(***************************************************************************)
C6_UnsupportedAbortsOnPoint ==
  /\ CreateValueRaises
  /\ (pc = "done" /\ output.kind # "descriptor") =>
       /\ (ResolvedValueType \notin SupportedValueTypes /\ SomePoint) =>
            (output.kind = "throw" /\ output.error = UnsupportedError)
       /\ (ResolvedValueType \notin SupportedValueTypes /\ ~SomePoint) =>
            /\ output.kind = "return"
            /\ Len(output.value) = Len(InputSeries)
            /\ \A j \in SeriesIndexes :
                 /\ output.value[j].points = <<>>
                 /\ output.value[j].valueType = "VALUE_TYPE_UNSPECIFIED"
       /\ ResolvedValueType \in SupportedValueTypes => output.kind = "return"

\* an unsupported type whose first series is empty and whose last series
\* has a point: the call throws
C6_Witness ==
  /\ Threw
  /\ ResolvedValueType = "VALUE_TYPE_UNSPECIFIED"
  /\ Len(InputSeries) = MaxSeries
  /\ InputSeries[1].points = <<>>
  /\ Len(InputSeries[MaxSeries].points) >= 1

(***************************************************************************)
(* C8: when a series has a start timestamp each of its output points has   *)
(* an interval with startTime, the formatted series start timestamp, and   *)
(* endTime, the formatted point timestamp; when it has none each of its    *)
(* output points has an interval with endTime only.                        *)
(***************************************************************************)
C8_IntervalFromSeriesStart ==
  Returned =>
    \A j \in SeriesIndexes : \A p \in PointIndexes(j) :
      LET interval == output.value[j].points[p].interval
          start == InputSeries[j].startTimestamp
      IN /\ interval.endTime = toISOString(InputSeries[j].points[p].timestamp)
         /\ start # Undefined =>
              /\ DOMAIN interval = {"startTime", "endTime"}
              /\ interval.startTime = toISOString(start)
         /\ start = Undefined => DOMAIN interval = {"endTime"}

\* a metric with a series that has a start timestamp and one that has none,
\* each with a point
C8_Witness ==
  /\ Returned
  /\ Len(output.value) = 2
  /\ InputSeries[1].startTimestamp # Undefined
  /\ InputSeries[2].startTimestamp = Undefined
  /\ Len(output.value[1].points) >= 1
  /\ Len(output.value[2].points) >= 1
  /\ HasStartTime(output.value[1].points[1])
  /\ ~HasStartTime(output.value[2].points[1])

(***************************************************************************)
(* C10: for a metric with k series of a supported value type,              *)
(* createTimeSeriesList returns k series in the input order; series j has  *)
(* as many points as input series j, its point p translates input point p, *)
(* it carries the labels of input series j's label values, and all series  *)
(* carry the same metricKind and valueType and the caller's resource.      *)
(***************************************************************************)
\* the tagged value of an input point under the resolved value type
ExpectedValue(point) ==
  CASE ResolvedValueType = "INT64" -> [int64Value |-> point.value]
    [] ResolvedValueType = "DOUBLE" -> [doubleValue |-> point.value]
    [] ResolvedValueType = "DISTRIBUTION" ->
         [distributionValue |-> createDistribution(point.value)]

C10_OneSeriesPerInputSeries ==
  (pc = "done" /\ output.kind # "descriptor"
     /\ ResolvedValueType \in SupportedValueTypes) =>
    /\ output.kind = "return"
    /\ Len(output.value) = Len(InputSeries)
    /\ \A j \in SeriesIndexes :
         /\ Len(output.value[j].points) = Len(InputSeries[j].points)
         /\ \A p \in PointIndexes(j) :
              /\ output.value[j].points[p].value
                   = ExpectedValue(InputSeries[j].points[p])
              /\ output.value[j].points[p].interval.endTime
                   = toISOString(InputSeries[j].points[p].timestamp)
         /\ output.value[j].metric.labels
              = createMetric(Descriptor, InputSeries[j].labelValues,
                             input.metricPrefix).labels
         /\ output.value[j].metricKind = output.value[1].metricKind
         /\ output.value[j].valueType = ResolvedValueType
         /\ output.value[j].resource = input.monitoredResource

\* two series with different label values and different points, in a
\* metric of a supported type, translated in the input order
C10_Witness ==
  /\ Returned
  /\ ResolvedValueType \in SupportedValueTypes
  /\ Len(output.value) = 2
  /\ InputSeries[1].labelValues # InputSeries[2].labelValues
  /\ Len(output.value[1].points) = 1
  /\ Len(output.value[2].points) = 1
  /\ InputSeries[1].points[1] # InputSeries[2].points[1]
  /\ output.value[1].metric.labels # output.value[2].metric.labels

====
